---- MODULE Spec2Model ----
(***************************************************************************)
(* Model of the asynchronous orchestration core of the learning-companion  *)
(* backend (src/backend/app.py): the job registry (job_queue, create_job,  *)
(* complete_job, get_job_status), the background workers run by the        *)
(* thread pool (process_syllabus_job, process_topic_planner_job) and the   *)
(* diagnostic chat handler (diagnostic_chat) with its session store, the  *)
(* background event loop (get_or_create_event_loop, run_async) and the    *)
(* flashcard scheduler of src/backend/db.py (update_flashcard_schedule).  *)
(*                                                                         *)
(* Python values are modelled as strings: NONE is Python's None, ABSENT a  *)
(* key that a response dictionary does not carry, "ts" a timestamp         *)
(* produced by datetime.utcnow().isoformat().                              *)
(***************************************************************************)
EXTENDS Integers, Sequences, FiniteSets, TLC

VARIABLES
    job_queue,      \* app.py:104  job id -> job record (a Python dict)
    next_job,       \* number of job ids handed out by uuid.uuid4() in create_job
    pool_queue,     \* work queue of the ThreadPoolExecutor (app.py:92)
    worker,         \* per pool thread: position inside the job body and its locals
    body_exc,       \* per job: the exception its worker body raised, if any
    poll,           \* a request thread inside get_job_status and its response so far
    api,            \* the last direct call made on the registry and what it returned
    active_sessions,            \* app.py:96  session id -> diagnostic session
    next_sid,                   \* number of session ids handed out by uuid.uuid4()
    req,                        \* per request thread: position inside diagnostic_chat and its locals
    last,                       \* the request that returned last: its locals and its response
    requests,                   \* number of chat requests received so far
    daily_generations_used,     \* db.py:232  the user's counter in the users collection
    probe_text,                 \* the agent output text under test (DetectSpec), else empty
    bg,             \* app.py:112-113  _background_loop, _background_thread and the loops and threads created
    caller,         \* per thread: position inside get_or_create_event_loop / run_async and its locals
    tasks,          \* the coroutines handed to asyncio.run_coroutine_threadsafe
    card,           \* db.py:615-729  the schedule fields of one flashcard document
    runs,           \* per job: how many times a pool thread has started its body
    tool_card,      \* tools/flashcard_tools.py:11  the schedule fields of one card of _flashcard_store
    reviews,        \* the qualities of the reviews applied to the card so far, oldest first
    reviewer,       \* per request thread: position inside update_flashcard_schedule and its locals
    review_count,   \* db.py:718  the review_count field of the flashcard document
    llm_text,       \* app.py:155  the text given to clean_and_parse_json
    parsed          \* app.py:155-179  what clean_and_parse_json returned for it

loopVars == <<bg, caller, tasks>>

srsVars == <<tool_card, reviews, reviewer, review_count>>

parseVars == <<llm_text, parsed>>

chatVars == <<active_sessions, next_sid, req, last, requests, daily_generations_used,
              probe_text, loopVars, card, runs, srsVars, parseVars>>

jobVars == <<job_queue, next_job, pool_queue, worker, body_exc, poll, api>>

vars == <<job_queue, next_job, pool_queue, worker, body_exc, poll, api,
          active_sessions, next_sid, req, last, requests, daily_generations_used,
          probe_text, bg, caller, tasks, card, runs,
          tool_card, reviews, reviewer, review_count, llm_text, parsed>>

----------------------------------------------------------------------------
(* Bounds of the model *)

MaxJobs == 2
MaxWorkers == 2
MaxSessions == 2
MaxClients == 2
MaxRequests == 3
MaxCallers == 2
MaxCalls == 3
TickSeconds == 60
MaxStep == 4
MaxInterval == 40
MaxEase == 280
MaxReviewers == 2
MaxReviews == 3

JobIds == 1..MaxJobs
Workers == 1..MaxWorkers
Clients == 1..MaxClients
Callers == 1..MaxCallers
Reviewers == 1..MaxReviewers

----------------------------------------------------------------------------
(* Python values *)

NONE == "None"
ABSENT == "<absent>"
TS == "ts"

\* Python truthiness: None, the empty string and the empty JSON value are falsy.
EmptyJson == "{}"
Truthy(v) == v \notin {NONE, "", EmptyJson}

Terminal == {"completed", "failed"}
JourneyData == "journey_data"
Results == {NONE, JourneyData}
ParseError == "Failed to parse JSON. Raw: ..."
TypeErrorMsg == "argument of type 'int' is not iterable"
Errors == {NONE, "", "boom", ParseError, TypeErrorMsg}

----------------------------------------------------------------------------
(* Job registry: create_job, complete_job *)

\* The record create_job stores (app.py:273-279).
PendingJob ==
    [status |-> "pending", result |-> NONE, error |-> NONE,
     created_at |-> TS, completed_at |-> NONE]

create_job(q, id) == (id :> PendingJob) @@ q

\* The four field writes of complete_job, in program order (app.py:286-289).
StatusFor(error) == IF Truthy(error) THEN "failed" ELSE "completed"

cj_write_status(q, id, error) == [q EXCEPT ![id].status = StatusFor(error)]
cj_write_result(q, id, result) == [q EXCEPT ![id].result = result]
cj_write_error(q, id, error) == [q EXCEPT ![id].error = error]
cj_write_completed_at(q, id) == [q EXCEPT ![id].completed_at = TS]

\* complete_job run without interruption (app.py:283-289).
complete_job(q, id, result, error) ==
    IF id \in DOMAIN q
    THEN cj_write_completed_at(
             cj_write_error(
                 cj_write_result(
                     cj_write_status(q, id, error), id, result), id, error), id)
    ELSE q

\* The response get_job_status builds from one job record (app.py:364-377).
job_view(job) ==
    [http |-> 200,
     status |-> job.status,
     completed_at |-> job.completed_at,
     result |-> IF job.status = "completed" THEN job.result ELSE ABSENT,
     error |-> IF job.status = "completed" THEN ABSENT
               ELSE IF job.status = "failed" THEN job.error ELSE ABSENT]

NotFound ==
    [http |-> 404, status |-> ABSENT, completed_at |-> ABSENT,
     result |-> ABSENT, error |-> "Job not found"]

get_job_status(q, id) == IF id \in DOMAIN q THEN job_view(q[id]) ELSE NotFound

----------------------------------------------------------------------------
(* Agent output text and the completion detector of diagnostic_chat *)

\* A text is a sequence of tokens.  "sentinel:" is the literal
\* DIAGNOSTIC_COMPLETE followed by a colon, "sentinel" the literal not followed
\* by a colon, "ws" white space, "strip" one of the characters ",. that
\* str.strip('",.') removes, "punct" any other non-word character, "word" a
\* run of word characters, "call" the text submit_diagnostic(mastery_level="w")
\* with the label w spelled as given.
Tok(k, w) == [k |-> k, w |-> w]
SentinelColon == Tok("sentinel:", "")
Sentinel == Tok("sentinel", "")
Ws == Tok("ws", "")
StripCh == Tok("strip", "")
Punct == Tok("punct", "")
Word(w) == Tok("word", w)
Call(w) == Tok("call", w)

LabelWords == {"Advanced", "advanced", "Expert"}
CallLabels == {"intermediate", "INTERMEDIATE", "Intermediate", "expert"}

Tokens ==
    {SentinelColon, Sentinel, Ws, StripCh, Punct}
      \cup {Word(w) : w \in LabelWords} \cup {Call(w) : w \in CallLabels}

MaxTextLen == 3

SeqsUpTo(S, n) == UNION {[1..k -> S] : k \in 0..n}
Texts == SeqsUpTo(Tokens, MaxTextLen)

\* str.capitalize() on the labels of the model.
capitalize(w) ==
    CASE w \in {"intermediate", "INTERMEDIATE", "Intermediate"} -> "Intermediate"
      [] w \in {"advanced", "ADVANCED", "Advanced"} -> "Advanced"
      [] w \in {"beginner", "BEGINNER", "Beginner"} -> "Beginner"
      [] w \in {"expert", "EXPERT", "Expert"} -> "Expert"
      [] OTHER -> w

Beginner == <<Word("Beginner")>>
Intermediate == <<Word("Intermediate")>>
Advanced == <<Word("Advanced")>>
Levels == {Beginner, Intermediate, Advanced}

Positions(t, kinds) == {i \in 1..Len(t) : t[i].k \in kinds}
Min(S) == CHOOSE x \in S : \A y \in S : x <= y
Max(S) == CHOOSE x \in S : \A y \in S : x >= y

\* "DIAGNOSTIC_COMPLETE" in text (app.py:1045, 1099)
HasSentinel(t) == Positions(t, {"sentinel", "sentinel:"}) # {}

\* text.split("DIAGNOSTIC_COMPLETE:") : whether it has more than one part, and parts[1]
HasSecondPart(t) == Positions(t, {"sentinel:"}) # {}
SecondPart(t) ==
    LET first == Min(Positions(t, {"sentinel:"}))
        rest == SubSeq(t, first + 1, Len(t))
        nxt == Positions(rest, {"sentinel:"})
    IN  IF nxt = {} THEN rest ELSE SubSeq(rest, 1, Min(nxt) - 1)

\* str.strip(chars) for the characters of the token kind k
StripKind(t, k) ==
    LET keep == {i \in 1..Len(t) : t[i].k # k}
    IN  IF keep = {} THEN << >> ELSE SubSeq(t, Min(keep), Max(keep))

\* s.split()[0] of a string without leading white space
FirstField(t) ==
    LET ws == Positions(t, {"ws"})
    IN  IF ws = {} THEN t ELSE SubSeq(t, 1, Min(ws) - 1)

\* Pattern 1 (app.py:1045-1050): the level it assigns to a text with the sentinel.
Mut_SentinelLevel(t) ==
    IF HasSecondPart(t)
    THEN LET p == StripKind(SecondPart(t), "ws")
         IN  IF p = << >> THEN Beginner ELSE FirstField(p)
    ELSE Beginner

SentinelLevel(t) ==
    IF HasSecondPart(t)
    THEN LET p == StripKind(SecondPart(t), "ws")
         IN  StripKind(IF p = << >> THEN Beginner ELSE FirstField(p), "strip")
    ELSE Beginner

\* Pattern 2 (app.py:1054-1057): re.search finds the first call in the text.
HasSubmitMatch(t) == Positions(t, {"call"}) # {}
Mut_SubmitLevel(t) == <<t[Min(Positions(t, {"call"}))]>>
SubmitLevel(t) == <<Word(capitalize(t[Min(Positions(t, {"call"}))].w))>>

\* app.py:1041-1058: is_complete and mastery_level for one agent output text.
detect_completion(t) ==
    LET c1 == HasSentinel(t)
        l1 == IF c1 THEN SentinelLevel(t) ELSE Beginner
        c2 == HasSubmitMatch(t)
    IN  [is_complete |-> c1 \/ c2,
         mastery_level |-> IF c2 THEN SubmitLevel(t) ELSE l1]

\* app.py:1098-1100: the text shown to the user on a chatting turn.
clean_response(t) ==
    IF HasSentinel(t)
    THEN StripKind(SubSeq(t, 1, Min(Positions(t, {"sentinel", "sentinel:"})) - 1), "ws")
    ELSE t

----------------------------------------------------------------------------
(* Initial state *)

\* The event loop an agent call is run on: none yet, the persistent loop of
\* run_async (app.py:131-135), or a loop that run_agent_sync creates for the
\* call and closes after it (app.py:258-263).
NoLoop == "none"
BackgroundLoop == "_background_loop"
PrivateLoop == "asyncio.new_event_loop()"

IdleWorker ==
    [pc |-> "idle", job |-> 0, fn |-> "", result |-> NONE, error |-> NONE,
     agent_loop |-> NoLoop]

NoExc == [kind |-> "none", msg |-> ""]

IdlePoll == [pc |-> "idle", job |-> 0, resp |-> NotFound]

NoCall == [op |-> "none", job |-> 0, result |-> NONE, error |-> NONE,
           before |-> ABSENT, resp |-> NotFound]

\* db.py:190
FREE_TIER_DAILY_LIMIT == 10

Topics == {"python"}

NoResp ==
    [http |-> 0, status |-> "", session_id |-> 0, level |-> << >>, job_id |-> 0,
     message |-> << >>, error |-> ""]

\* The message diagnostic_chat sends to the agent: the opening prompt
\* (app.py:1001) or the user's text wrapped with a topic (app.py:1017). The
\* user's text itself is not modelled.
NoInput == [kind |-> "none", topic |-> ""]
initial_prompt(topic) == [kind |-> "initial", topic |-> topic]
contextual_input(topic) == [kind |-> "contextual", topic |-> topic]

\* The locals of diagnostic_chat: the topic of the request body, skip_assessment, session_id, topic, whether
\* the session is new, response_text (and whether it is bound), is_complete,
\* mastery_level, limit_status, the daily_used that use_generation read; and
\* what happened in the request: how its agent call failed, the jobs it created.
IdleReq ==
    [pc |-> "idle", skip |-> FALSE, sid |-> 0, topic |-> "", new |-> FALSE,
     has_text |-> FALSE, text |-> << >>, failed |-> "no", is_complete |-> FALSE,
     level |-> Beginner, limit |-> "unchecked", created |-> {}, agent_loop |-> NoLoop,
     known |-> FALSE, daily_used |-> 0, data_topic |-> "", input |-> NoInput]

NoLast == [client |-> 0, req |-> IdleReq, resp |-> NoResp]

\* app.py:112-113: no loop and no loop thread yet; no thread is inside
\* get_or_create_event_loop or run_async; nothing is scheduled.
NoLoops == [loop |-> 0, thread |-> 0, nloops |-> 0, threads |-> << >>, calls |-> 0]
IdleCaller ==
    [pc |-> "idle", op |-> "", seen |-> 0, ret |-> 0, task |-> 0, waited |-> 0,
     out |-> "none"]
LoopInit ==
    /\ bg = NoLoops
    /\ caller = [c \in Callers |-> IdleCaller]
    /\ tasks = << >>

\* save_flashcard (db.py:615-641): the schedule of a newly created card.
\* ease_factor is held in hundredths.
\* quality is the quality of the card's last review, -1 before the first.
NewCard == [interval |-> 0, ease_factor |-> 250, step |-> 0, quality |-> -1]
\* save_flashcard of the tool (tools/flashcard_tools.py:36-47): the schedule
\* of a newly created card of the in-memory store.
NewToolCard == [interval_days |-> 1, ease_factor |-> 250, repetitions |-> 0]

\* No thread is inside update_flashcard_schedule.
IdleReviewer ==
    [pc |-> "idle", quality |-> -1, step |-> 0, interval |-> 0, ease |-> 0]

SrsInit ==
    /\ tool_card = NewToolCard
    /\ reviews = << >>
    /\ reviewer = [t \in Reviewers |-> IdleReviewer]
    /\ review_count = 0

\* Nothing has been given to clean_and_parse_json.
ParseIdle == llm_text = << >> /\ parsed = "unparsed"

CardInit == card = NewCard /\ SrsInit /\ ParseIdle

\* No session yet, a user who has not generated anything today.
ChatInit ==
    /\ active_sessions = << >>
    /\ next_sid = 0
    /\ req = [r \in Clients |-> IdleReq]
    /\ last = NoLast
    /\ requests = 0
    /\ daily_generations_used = 0
    /\ probe_text = << >>
    /\ LoopInit
    /\ CardInit

JobsInit ==
    /\ job_queue = << >>
    /\ next_job = 0
    /\ pool_queue = << >>
    /\ worker = [w \in Workers |-> IdleWorker]
    /\ body_exc = [j \in JobIds |-> NoExc]
    /\ poll = IdlePoll
    /\ api = NoCall
    /\ runs = [j \in JobIds |-> 0]

Init == JobsInit /\ ChatInit

----------------------------------------------------------------------------
(* Direct calls on the registry, one after the other (ApiSpec) *)

StatusOf(q, id) == IF id \in DOMAIN q THEN q[id].status ELSE ABSENT

ApiCreateJob ==
    /\ next_job < MaxJobs
    /\ next_job' = next_job + 1
    /\ job_queue' = create_job(job_queue, next_job + 1)
    /\ api' = [NoCall EXCEPT !.op = "create_job", !.job = next_job + 1]
    /\ UNCHANGED chatVars
    /\ UNCHANGED <<pool_queue, worker, body_exc, poll>>

ApiCompleteJob(id, result, error) ==
    /\ job_queue' = complete_job(job_queue, id, result, error)
    /\ api' = [NoCall EXCEPT !.op = "complete_job", !.job = id,
                             !.result = result, !.error = error,
                             !.before = StatusOf(job_queue, id)]
    /\ UNCHANGED chatVars
    /\ UNCHANGED <<next_job, pool_queue, worker, body_exc, poll>>

ApiGetJobStatus(id) ==
    /\ api' = [NoCall EXCEPT !.op = "get_job_status", !.job = id,
                             !.resp = get_job_status(job_queue, id)]
    /\ UNCHANGED chatVars
    /\ UNCHANGED <<job_queue, next_job, pool_queue, worker, body_exc, poll>>

ApiNext ==
    \/ ApiCreateJob
    \/ \E id \in JobIds, result \in Results, error \in Errors :
           ApiCompleteJob(id, result, error)
    \/ \E id \in JobIds : ApiGetJobStatus(id)

ApiSpec == Init /\ [][ApiNext]_vars

----------------------------------------------------------------------------
(* The agent capability as the job bodies see it *)

\* What an exception is: its class (caught by "except Exception" or not) and str(e).
ExcKinds == {"Exception", "BaseException"}
ExcMsgs == {"", "boom"}
Excs == [kind : ExcKinds, msg : ExcMsgs]

\* Classes of agent output text, by what clean_and_parse_json makes of them.
TextKinds == {"object", "falsy_json", "scalar_json", "garbage", "empty"}

\* One agent invocation: it returns text, raises while the events are being
\* collected (runner.run_async), raises while the session is being created
\* (create_session_async), or never returns.
AgentBehaviours ==
    [type : {"returns"}, text : TextKinds, exc : {NoExc}]
      \cup [type : {"run_raises"}, text : {"garbage", "empty"}, exc : Excs]
      \cup [type : {"session_raises"}, text : {"empty"}, exc : Excs]
      \cup [type : {"hangs"}, text : {"empty"}, exc : {NoExc}]

\* clean_and_parse_json by class of text (app.py:155-179).
clean_and_parse_json(text) ==
    CASE text = "object" -> JourneyData
      [] text = "falsy_json" -> EmptyJson
      [] text = "scalar_json" -> "5"
      [] OTHER -> NONE

Returned(text) == [out |-> "return", text |-> text, exc |-> NoExc]
Raised(exc) == [out |-> "raise", text |-> "empty", exc |-> exc]
Hung == [out |-> "hang", text |-> "empty", exc |-> NoExc]

\* run_agent_async (app.py:182-227): an Exception raised while collecting the
\* events is caught and the text collected so far is returned.
run_agent_async(b) ==
    IF b.type = "run_raises" /\ b.exc.kind # "Exception"
    THEN Raised(b.exc)
    ELSE Returned(b.text)

\* run_agent_sync (app.py:239-263): a private event loop, no timeout.
run_agent_sync(b) ==
    CASE b.type = "hangs" -> Hung
      [] b.type = "session_raises" -> Raised(b.exc)
      [] OTHER -> run_agent_async(b)

\* The body of process_syllabus_job / process_topic_planner_job up to its
\* complete_job call (app.py:296-317, 324-344).  do = "complete": the call it
\* makes; "escape": the exception leaves the body; "hang": it never returns.
BodyCall(result, error, exc) ==
    [do |-> "complete", result |-> result, error |-> error, exc |-> exc,
     loop |-> PrivateLoop]

job_body(b) ==
    LET r == run_agent_sync(b)
        journey_data == clean_and_parse_json(r.text)
    IN  CASE r.out = "hang" ->
                 [do |-> "hang", result |-> NONE, error |-> NONE, exc |-> NoExc,
                  loop |-> PrivateLoop]
          [] r.out = "raise" /\ r.exc.kind = "Exception" ->
                 BodyCall(NONE, r.exc.msg, r.exc)
          [] r.out = "raise" ->
                 [do |-> "escape", result |-> NONE, error |-> NONE, exc |-> r.exc,
                  loop |-> PrivateLoop]
          [] ~Truthy(journey_data) -> BodyCall(NONE, ParseError, NoExc)
          [] journey_data # JourneyData ->
                 BodyCall(NONE, TypeErrorMsg, [kind |-> "Exception", msg |-> TypeErrorMsg])
          [] OTHER -> BodyCall(journey_data, NONE, NoExc)

----------------------------------------------------------------------------
(* Background jobs: submission, the pool's worker threads *)

JobFns == {"process_syllabus_job", "process_topic_planner_job"}

\* The arguments of executor.submit (app.py:871, 969, 1084).
syllabus_task(job) ==
    [fn |-> "process_syllabus_job", job |-> job, topic |-> "", level |-> << >>]
Mut_planner_task(job, topic, level) ==
    [fn |-> "process_topic_planner_job", job |-> job, topic |-> topic, level |-> Beginner]
planner_task(job, topic, level) ==
    [fn |-> "process_topic_planner_job", job |-> job, topic |-> topic, level |-> level]

\* A request handler creates a job and hands its body to the pool
\* (app.py:870-871, 968-969, 1083-1084).
SubmitJob(fn) ==
    /\ next_job < MaxJobs
    /\ next_job' = next_job + 1
    /\ job_queue' = create_job(job_queue, next_job + 1)
    /\ pool_queue' = Append(pool_queue,
                            IF fn = "process_topic_planner_job"
                            THEN planner_task(next_job + 1, "python", Beginner)
                            ELSE syllabus_task(next_job + 1))
    /\ UNCHANGED chatVars
    /\ UNCHANGED <<worker, body_exc, poll, api>>

\* An idle pool thread takes the oldest queued body.
Mut_WorkerTake(w) ==
    /\ worker[w].pc = "idle"
    /\ pool_queue # << >>
    /\ worker' = [worker EXCEPT ![w] =
                      [IdleWorker EXCEPT !.pc = "body", !.job = Head(pool_queue).job,
                                         !.fn = Head(pool_queue).fn]]
    /\ pool_queue' = pool_queue
    /\ runs' = [runs EXCEPT ![Head(pool_queue).job] = @ + 1]
    /\ UNCHANGED <<active_sessions, next_sid, req, last, requests, daily_generations_used,
                   probe_text, loopVars, card, srsVars, parseVars>>
    /\ UNCHANGED <<job_queue, next_job, body_exc, poll, api>>
WorkerTake(w) ==
    /\ worker[w].pc = "idle"
    /\ pool_queue # << >>
    /\ worker' = [worker EXCEPT ![w] =
                      [IdleWorker EXCEPT !.pc = "body", !.job = Head(pool_queue).job,
                                         !.fn = Head(pool_queue).fn]]
    /\ pool_queue' = Tail(pool_queue)
    /\ runs' = [runs EXCEPT ![Head(pool_queue).job] = @ + 1]
    /\ UNCHANGED <<active_sessions, next_sid, req, last, requests, daily_generations_used,
                   probe_text, loopVars, card, srsVars, parseVars>>
    /\ UNCHANGED <<job_queue, next_job, body_exc, poll, api>>

\* The body runs up to its complete_job call, or is left by an exception that
\* "except Exception" does not catch, or blocks forever in the agent call.
WorkerBody(w, b) ==
    LET o == job_body(b) IN
    /\ worker[w].pc = "body"
    /\ body_exc' = [body_exc EXCEPT ![worker[w].job] = o.exc]
    /\ worker' = [worker EXCEPT ![w] =
                      CASE o.do = "complete" ->
                               [@ EXCEPT !.pc = "cj_status", !.result = o.result,
                                         !.error = o.error, !.agent_loop = o.loop]
                        [] o.do = "hang" -> [@ EXCEPT !.pc = "hung", !.agent_loop = o.loop]
                        [] OTHER -> IdleWorker]
    /\ UNCHANGED chatVars
    /\ UNCHANGED <<job_queue, next_job, pool_queue, poll, api>>

\* complete_job in the worker thread, one field write at a time (app.py:285-289).
WorkerWriteStatus(w) ==
    /\ worker[w].pc = "cj_status"
    /\ job_queue' = IF worker[w].job \in DOMAIN job_queue
                    THEN cj_write_status(job_queue, worker[w].job, worker[w].error)
                    ELSE job_queue
    /\ worker' = [worker EXCEPT ![w] =
                      IF worker[w].job \in DOMAIN job_queue
                      THEN [@ EXCEPT !.pc = "cj_result"] ELSE IdleWorker]
    /\ UNCHANGED chatVars
    /\ UNCHANGED <<next_job, pool_queue, body_exc, poll, api>>

WorkerWriteResult(w) ==
    /\ worker[w].pc = "cj_result"
    /\ job_queue' = cj_write_result(job_queue, worker[w].job, worker[w].result)
    /\ worker' = [worker EXCEPT ![w].pc = "cj_error"]
    /\ UNCHANGED chatVars
    /\ UNCHANGED <<next_job, pool_queue, body_exc, poll, api>>

WorkerWriteError(w) ==
    /\ worker[w].pc = "cj_error"
    /\ job_queue' = cj_write_error(job_queue, worker[w].job, worker[w].error)
    /\ worker' = [worker EXCEPT ![w].pc = "cj_completed_at"]
    /\ UNCHANGED chatVars
    /\ UNCHANGED <<next_job, pool_queue, body_exc, poll, api>>

WorkerWriteCompletedAt(w) ==
    /\ worker[w].pc = "cj_completed_at"
    /\ job_queue' = cj_write_completed_at(job_queue, worker[w].job)
    /\ worker' = [worker EXCEPT ![w] = [IdleWorker EXCEPT !.job = worker[w].job]]
    /\ UNCHANGED chatVars
    /\ UNCHANGED <<next_job, pool_queue, body_exc, poll, api>>

WorkerStep(w) ==
    \/ WorkerTake(w)
    \/ \E b \in AgentBehaviours : WorkerBody(w, b)
    \/ WorkerWriteStatus(w)
    \/ WorkerWriteResult(w)
    \/ WorkerWriteError(w)
    \/ WorkerWriteCompletedAt(w)

----------------------------------------------------------------------------
(* get_job_status in a request thread, one dictionary read at a time *)

\* app.py:361-364: the membership test and the lookup of the job's dict.
PollStart(id) ==
    /\ poll.pc \in {"idle", "done"}
    /\ poll' = IF id \in DOMAIN job_queue
               THEN [pc |-> "status", job |-> id,
                     resp |-> [NotFound EXCEPT !.http = 200, !.error = ABSENT]]
               ELSE [pc |-> "done", job |-> id, resp |-> NotFound]
    /\ UNCHANGED chatVars
    /\ UNCHANGED <<job_queue, next_job, pool_queue, worker, body_exc, api>>

\* app.py:367
PollReadStatus ==
    /\ poll.pc = "status"
    /\ poll' = [poll EXCEPT !.pc = "completed_at",
                            !.resp.status = job_queue[poll.job].status]
    /\ UNCHANGED chatVars
    /\ UNCHANGED <<job_queue, next_job, pool_queue, worker, body_exc, api>>

\* app.py:368-369 (created_at never changes after create_job)
PollReadCompletedAt ==
    /\ poll.pc = "completed_at"
    /\ poll' = [poll EXCEPT !.pc = "if_completed",
                            !.resp.completed_at = job_queue[poll.job].completed_at]
    /\ UNCHANGED chatVars
    /\ UNCHANGED <<job_queue, next_job, pool_queue, worker, body_exc, api>>

\* app.py:372
PollIfCompleted ==
    /\ poll.pc = "if_completed"
    /\ poll' = [poll EXCEPT !.pc = IF job_queue[poll.job].status = "completed"
                                   THEN "result" ELSE "if_failed"]
    /\ UNCHANGED chatVars
    /\ UNCHANGED <<job_queue, next_job, pool_queue, worker, body_exc, api>>

\* app.py:373
PollReadResult ==
    /\ poll.pc = "result"
    /\ poll' = [poll EXCEPT !.pc = "done",
                            !.resp.result = job_queue[poll.job].result]
    /\ UNCHANGED chatVars
    /\ UNCHANGED <<job_queue, next_job, pool_queue, worker, body_exc, api>>

\* app.py:374
PollIfFailed ==
    /\ poll.pc = "if_failed"
    /\ poll' = [poll EXCEPT !.pc = IF job_queue[poll.job].status = "failed"
                                   THEN "error" ELSE "done"]
    /\ UNCHANGED chatVars
    /\ UNCHANGED <<job_queue, next_job, pool_queue, worker, body_exc, api>>

\* app.py:375
PollReadError ==
    /\ poll.pc = "error"
    /\ poll' = [poll EXCEPT !.pc = "done",
                            !.resp.error = job_queue[poll.job].error]
    /\ UNCHANGED chatVars
    /\ UNCHANGED <<job_queue, next_job, pool_queue, worker, body_exc, api>>

PollStep ==
    \/ \E id \in JobIds : PollStart(id)
    \/ PollReadStatus
    \/ PollReadCompletedAt
    \/ PollIfCompleted
    \/ PollReadResult
    \/ PollIfFailed
    \/ PollReadError

----------------------------------------------------------------------------
(* The job registry with its workers and a polling client *)

Next ==
    \/ \E fn \in JobFns : SubmitJob(fn)
    \/ \E w \in Workers : WorkerStep(w)
    \/ PollStep

Spec == Init /\ [][Next]_vars

\* Pool threads are scheduled by the operating system: a thread that can take
\* a step eventually takes it.
FairSpec == Spec /\ \A w \in Workers : WF_vars(WorkerStep(w))

----------------------------------------------------------------------------
(* Claims about the job registry *)

\* C1: a job's status changes only from pending to completed or failed, and
\* once it is completed or failed no later call (another complete_job on the
\* same id included) changes it.
C1_StatusChangesOnce ==
    [][\A j \in DOMAIN job_queue :
          job_queue'[j].status # job_queue[j].status
              => /\ job_queue[j].status = "pending"
                 /\ job_queue'[j].status \in Terminal]_vars

\* The records a job holds when no complete_job call is half-way through it.
AtomicRecords ==
    {PendingJob} \cup
    {complete_job(create_job(<< >>, 1), 1, r, e)[1] : r \in Results, e \in Errors}

\* C2: a response of get_job_status is the view of the job entirely before or
\* entirely after its completion, never a mix of the two.
C2_NoTornView ==
    (poll.pc = "done" /\ poll.resp.http = 200)
        => \E rec \in AtomicRecords : poll.resp = job_view(rec)

\* C3: in every state, also between the field writes of complete_job, a job's
\* completed_at is set exactly when its status is completed or failed.
C3_CompletedAtIffTerminal ==
    \A j \in DOMAIN job_queue :
        (job_queue[j].completed_at # NONE) <=> (job_queue[j].status \in Terminal)

\* A pool thread is still inside the body of job j.
InFlight(j) ==
    \/ \E w \in Workers : worker[w].job = j /\ worker[w].pc # "idle"
    \/ \E i \in 1..Len(pool_queue) : pool_queue[i].job = j

\* C4: when a worker body raises, whatever the exception's class and message,
\* the job is never completed, and once the worker is done with it the job is
\* failed with a recorded error.
C4_BodyExceptionFailsJob ==
    \A j \in DOMAIN job_queue :
        body_exc[j] # NoExc
            => /\ job_queue[j].status # "completed"
               /\ ~InFlight(j) => /\ job_queue[j].status = "failed"
                                  /\ Truthy(job_queue[j].error)

\* C5: under fair scheduling of the pool threads every submitted job
\* eventually is completed or failed, whether the agent returns, raises or
\* never returns.
C5_EveryJobTerminates ==
    \A j \in JobIds :
        [](j \in DOMAIN job_queue
              => <>(j \in DOMAIN job_queue /\ job_queue[j].status \in Terminal))

\* C10: in every state a job's result is non-null exactly when its status is
\* completed, and its error is non-null exactly when its status is failed.
C10_ResultIffCompleted ==
    \A j \in DOMAIN job_queue :
        /\ (job_queue[j].result # NONE) <=> (job_queue[j].status = "completed")
        /\ (job_queue[j].error # NONE) <=> (job_queue[j].status = "failed")

----------------------------------------------------------------------------
(* The generation limit of a free-tier user (db.py) *)

\* check_generation_limit (db.py:192-257), free tier, counter of today.
check_generation_limit(used) ==
    [allowed |-> ~(used >= FREE_TIER_DAILY_LIMIT),
     remaining |-> IF FREE_TIER_DAILY_LIMIT - used > 0
                   THEN FREE_TIER_DAILY_LIMIT - used ELSE 0]

\* use_generation (db.py:259-303): the stored counter after the call. The
\* function compares the value it read with find_one (db.py:268, 284-290) and
\* then lets update_one add one to whatever is stored by then (db.py:292-298).
use_generation(daily_used, stored) ==
    IF daily_used >= FREE_TIER_DAILY_LIMIT THEN stored ELSE stored + 1

----------------------------------------------------------------------------
(* diagnostic_chat (app.py:909-1111) in a request thread *)

\* The agent as a chat turn sees it: it returns text, raises while the events
\* are collected, or does not answer within the 120 s of run_async.
TimeoutError == [kind |-> "Exception", msg |-> ""]
ChatBehaviours(texts) ==
    [type : {"returns"}, text : texts, exc : {NoExc}]
      \cup [type : {"run_raises"}, text : {<< >>},
            exc : {[kind |-> "Exception", msg |-> "boom"]}]
      \cup [type : {"timeout"}, text : {<< >>}, exc : {TimeoutError}]

\* run_async (app.py:131-135): future.result(timeout=120).
run_async(b, r) == IF b.type = "timeout" THEN Raised(TimeoutError) ELSE r

\* The request's session_id is none (0), an id the server handed out, or an
\* id the server does not know.
UnknownSid == -1
\* str(uuid.uuid4()) of app.py:972: an id that is never a key of active_sessions.
UnstoredUuid == -2

Resp500 == [NoResp EXCEPT !.http = 500, !.error = "exception"]
RespExpired ==
    [NoResp EXCEPT !.http = 400, !.status = "error",
                   !.error = "Session expired. Please start again."]
RespLimitSkip == [NoResp EXCEPT !.http = 403, !.error = "Daily generation limit reached"]
RespLimit ==
    [NoResp EXCEPT !.http = 403,
                   !.error = "Daily generation limit reached. Upgrade to Pro to complete your journey."]
RespNoTopic ==
    [NoResp EXCEPT !.http = 400, !.error = "Topic is required to skip assessment"]
RespChatting(sid, text) ==
    [NoResp EXCEPT !.http = 200, !.status = "chatting", !.session_id = sid,
                   !.message = clean_response(text)]
RespProcessing(sid, level, job) ==
    [NoResp EXCEPT !.http = 200, !.status = "processing", !.session_id = sid,
                   !.level = level, !.job_id = job,
                   !.message = <<Tok("fixed", "Diagnostic complete! Level: ")>> \o level
                               \o <<Tok("fixed", ". Generating personalized journey...")>>]
RespSkipped(sid, job) ==
    [NoResp EXCEPT !.http = 200, !.status = "processing", !.session_id = sid,
                   !.level = Beginner, !.job_id = job,
                   !.message = <<Tok("fixed", "Skipping assessment. Generating journey for beginners...")>>]

Mut_Remove(f, k) == f
Remove(f, k) == [x \in DOMAIN f \ {k} |-> f[x]]

\* The handler returns: the thread is free again, the response goes to the client.
Return(r, locals, resp) ==
    /\ req' = [req EXCEPT ![r] = IdleReq]
    /\ last' = [client |-> r, req |-> [locals EXCEPT !.pc = "done"], resp |-> resp]

\* app.py:1009-1012: a continuation turn replaces the topic of the request
\* body by the topic stored with the session.
Mut_continuation_topic(in_sid, in_topic) == in_topic
continuation_topic(in_sid, in_topic) == active_sessions[in_sid].topic

\* app.py:926-991: the request is read; a skip request goes to the limit check,
\* a request without a known session id starts a new session, any other
\* request continues its session and sends the user's text wrapped with the
\* session's topic.
ChatBegin(r, in_sid, in_topic, skip) ==
    /\ req[r].pc = "idle"
    /\ requests < MaxRequests
    /\ requests' = requests + 1
    /\ LET known == in_sid # 0 /\ in_sid \in DOMAIN active_sessions
           start == [IdleReq EXCEPT !.skip = skip, !.sid = in_sid, !.topic = in_topic,
                                   !.data_topic = in_topic]
       IN  IF skip
           THEN /\ req' = [req EXCEPT ![r] = [start EXCEPT !.pc = "check_limit"]]
                /\ UNCHANGED next_sid
           ELSE IF ~known
           THEN /\ next_sid < MaxSessions
                /\ next_sid' = next_sid + 1
                /\ req' = [req EXCEPT ![r] =
                              [start EXCEPT !.pc = "create_session", !.new = TRUE,
                                            !.sid = next_sid + 1]]
           ELSE /\ req' = [req EXCEPT ![r] =
                              [start EXCEPT !.pc = "agent",
                                            !.topic = continuation_topic(in_sid, in_topic),
                                            !.input = contextual_input(
                                                continuation_topic(in_sid, in_topic))]]
                /\ UNCHANGED next_sid
    /\ UNCHANGED <<active_sessions, last, daily_generations_used, probe_text, loopVars, card, runs, srsVars, parseVars>>
    /\ UNCHANGED <<job_queue, next_job, pool_queue, worker, body_exc, poll, api>>

\* app.py:989-1006: create_session_async returned (or raised); the session is
\* stored and the opening prompt is sent.
ChatSessionCreated(r, ok) ==
    /\ req[r].pc = "create_session"
    /\ IF ok
       THEN /\ active_sessions' =
                   (req[r].sid :> [topic |-> req[r].topic, adk_session_id |-> req[r].sid])
                       @@ active_sessions
            /\ req' = [req EXCEPT ![r].pc = "agent",
                                  ![r].input = initial_prompt(req[r].topic)]
            /\ UNCHANGED last
       ELSE /\ Return(r, req[r], Resp500)
            /\ UNCHANGED active_sessions
    /\ UNCHANGED <<next_sid, requests, daily_generations_used, probe_text, loopVars, card, runs, srsVars, parseVars>>
    /\ UNCHANGED <<job_queue, next_job, pool_queue, worker, body_exc, poll, api>>

\* app.py:1004-1106: the agent call of the turn returned or failed; completion
\* is detected in the text; on completion the session is deleted and the limit
\* check is next, otherwise the chatting response is returned.
ChatAgentReturn(r, b) ==
    LET res == run_async(b, run_agent_async(b))
        d == detect_completion(res.text)
        failed == CASE b.type = "timeout" -> "timeout"
                    [] b.type = "run_raises" -> "raised"
                    [] OTHER -> "no"
        me == [req[r] EXCEPT !.failed = failed, !.agent_loop = BackgroundLoop]
        got == [me EXCEPT !.has_text = TRUE, !.text = res.text,
                          !.is_complete = d.is_complete, !.level = d.mastery_level]
    IN
    /\ req[r].pc = "agent"
    /\ IF res.out = "raise"
       THEN IF me.new
            THEN /\ Return(r, me, Resp500)
                 /\ UNCHANGED active_sessions
            ELSE /\ Return(r, me, RespExpired)
                 /\ active_sessions' = Remove(active_sessions, me.sid)
       ELSE IF d.is_complete
            THEN IF me.sid \in DOMAIN active_sessions
                 THEN /\ req' = [req EXCEPT ![r] = [got EXCEPT !.pc = "check_limit"]]
                      /\ active_sessions' = Remove(active_sessions, me.sid)
                      /\ UNCHANGED last
                 ELSE /\ Return(r, got, Resp500)
                      /\ UNCHANGED active_sessions
            ELSE /\ Return(r, got, RespChatting(me.sid, res.text))
                 /\ UNCHANGED active_sessions
    /\ UNCHANGED <<next_sid, requests, daily_generations_used, probe_text, loopVars, card, runs, srsVars, parseVars>>
    /\ UNCHANGED <<job_queue, next_job, pool_queue, worker, body_exc, poll, api>>

\* app.py:946-951, 1072-1079: check_generation_limit returned.
ChatLimitChecked(r) ==
    /\ req[r].pc = "check_limit"
    /\ IF check_generation_limit(daily_generations_used).allowed
       THEN /\ req' = [req EXCEPT ![r].pc = "use_generation", ![r].limit = "allowed"]
            /\ UNCHANGED last
       ELSE Return(r, [req[r] EXCEPT !.limit = "refused"],
                   IF req[r].skip THEN RespLimitSkip ELSE RespLimit)
    /\ UNCHANGED <<active_sessions, next_sid, requests, daily_generations_used, probe_text, loopVars, card, runs, srsVars, parseVars>>
    /\ UNCHANGED <<job_queue, next_job, pool_queue, worker, body_exc, poll, api>>

\* app.py:968-977, 1083-1092: the planning job is created and submitted and
\* the processing response is returned.
ChatHandoff(r, me, topic, level) ==
    LET job == next_job + 1 IN
    /\ next_job < MaxJobs
    /\ next_job' = job
    /\ job_queue' = create_job(job_queue, job)
    /\ pool_queue' = Append(pool_queue, planner_task(job, topic, level))
    /\ Return(r, [me EXCEPT !.topic = topic, !.created = {job}],
              IF me.skip
              THEN RespSkipped(IF me.sid # 0 THEN me.sid ELSE UnstoredUuid, job)
              ELSE RespProcessing(me.sid, level, job))

\* app.py:961-977: a skip request must have a topic by now.
ChatSkipFinish(r, me, topic) ==
    IF topic = ""
    THEN /\ Return(r, [me EXCEPT !.topic = topic], RespNoTopic)
         /\ UNCHANGED <<job_queue, next_job, pool_queue>>
    ELSE ChatHandoff(r, me, topic, Beginner)

\* app.py:953, 1081 into db.py:268-287: use_generation reads the user's
\* document.
ChatGenerationRead(r) ==
    /\ req[r].pc = "use_generation"
    /\ req' = [req EXCEPT ![r].pc = "use_write",
                          ![r].daily_used = daily_generations_used]
    /\ UNCHANGED <<active_sessions, next_sid, last, requests, daily_generations_used,
                   probe_text, loopVars, card, runs, srsVars, parseVars>>
    /\ UNCHANGED <<job_queue, next_job, pool_queue, worker, body_exc, poll, api>>

\* db.py:289-299, app.py:953-956, 1081-1092: use_generation writes and
\* returns (the handler ignores what it returns); a skip request tests whether
\* its session id is in the store, a completed diagnostic hands off.
ChatGenerationUsed(r) ==
    LET me == [req[r] EXCEPT !.daily_used = 0]
        known == me.sid # 0 /\ me.sid \in DOMAIN active_sessions
    IN
    /\ me.pc = "use_write"
    /\ daily_generations_used' =
           use_generation(req[r].daily_used, daily_generations_used)
    /\ IF me.skip /\ known
       THEN /\ req' = [req EXCEPT ![r] = [me EXCEPT !.pc = "skip_take", !.known = TRUE]]
            /\ UNCHANGED <<last, job_queue, next_job, pool_queue>>
       ELSE IF me.skip
       THEN ChatSkipFinish(r, me, me.topic)
       ELSE ChatHandoff(r, me, me.topic, me.level)
    /\ UNCHANGED <<active_sessions, next_sid, requests, probe_text, loopVars, card, runs, srsVars, parseVars>>
    /\ UNCHANGED <<worker, body_exc, poll, api>>

\* app.py:957-959: the skip request reads its session's topic and deletes the
\* session; when another request removed the session in the meantime the
\* KeyError leaves the handler (this part is outside its try) and the
\* framework answers 500.
ChatSkipTake(r) ==
    LET me == req[r] IN
    /\ me.pc = "skip_take"
    /\ IF me.sid \in DOMAIN active_sessions
       THEN /\ active_sessions' = Remove(active_sessions, me.sid)
            /\ ChatSkipFinish(r, me, active_sessions[me.sid].topic)
       ELSE /\ Return(r, me, Resp500)
            /\ UNCHANGED <<active_sessions, job_queue, next_job, pool_queue>>
    /\ UNCHANGED <<next_sid, requests, daily_generations_used, probe_text, loopVars, card, runs, srsVars, parseVars>>
    /\ UNCHANGED <<worker, body_exc, poll, api>>

\* Agent output texts of the chat scenario: a question, and the two completion
\* signals.
ChatTexts ==
    {<<Word("Advanced"), Punct>>,
     <<Word("Expert"), Ws, SentinelColon, Word("Advanced")>>,
     <<Call("intermediate")>>}

ChatStep(r, texts) ==
    \/ \E in_sid \in (0..next_sid) \cup {UnknownSid}, in_topic \in Topics \cup {""},
          skip \in BOOLEAN : ChatBegin(r, in_sid, in_topic, skip)
    \/ \E ok \in BOOLEAN : ChatSessionCreated(r, ok)
    \/ \E b \in ChatBehaviours(texts) : ChatAgentReturn(r, b)
    \/ ChatLimitChecked(r)
    \/ ChatGenerationRead(r)
    \/ ChatGenerationUsed(r)
    \/ ChatSkipTake(r)

ChatNext == \E r \in Clients : ChatStep(r, ChatTexts)

\* The user's counter is kept in the database and outlives the process.
ChatSpecInit ==
    /\ JobsInit
    /\ active_sessions = << >>
    /\ next_sid = 0
    /\ req = [r \in Clients |-> IdleReq]
    /\ last = NoLast
    /\ requests = 0
    /\ daily_generations_used \in (FREE_TIER_DAILY_LIMIT - 1)..FREE_TIER_DAILY_LIMIT
    /\ probe_text = << >>
    /\ LoopInit
    /\ CardInit

ChatSpec == ChatSpecInit /\ [][ChatNext]_vars

----------------------------------------------------------------------------
(* One client whose agent answers every turn with the text under test *)

DetectInit ==
    /\ JobsInit
    /\ active_sessions = << >>
    /\ next_sid = 0
    /\ req = [r \in Clients |-> IdleReq]
    /\ last = NoLast
    /\ requests = 0
    /\ daily_generations_used \in (FREE_TIER_DAILY_LIMIT - 1)..FREE_TIER_DAILY_LIMIT
    /\ probe_text \in Texts
    /\ LoopInit
    /\ CardInit

DetectNext ==
    \/ \E in_sid \in 0..next_sid : ChatBegin(1, in_sid, "python", FALSE)
    \/ ChatSessionCreated(1, TRUE)
    \/ ChatAgentReturn(1, [type |-> "returns", text |-> probe_text, exc |-> NoExc])
    \/ ChatLimitChecked(1)
    \/ ChatGenerationRead(1)
    \/ ChatGenerationUsed(1)

DetectSpec == DetectInit /\ [][DetectNext]_vars

----------------------------------------------------------------------------
(* One client talking to the server, one request at a time *)

SoloNext == ChatStep(1, ChatTexts)

SoloSpec == ChatSpecInit /\ [][SoloNext]_vars

----------------------------------------------------------------------------
(* Claims about the diagnostic handoff *)

\* The tasks in the pool's queue that carry job j.
TasksOf(j) == {i \in 1..Len(pool_queue) : pool_queue[i].job = j}

\* The request that returned last detected completion in a chat turn.
LastDetectedCompletion ==
    /\ last.client # 0
    /\ ~last.req.skip
    /\ last.req.is_complete

\* The request that returned last handed its session over to exactly one
\* planning job with the session's topic and the resolved level.
LastHandedOff ==
    /\ last.req.created # {}
    /\ \E j \in DOMAIN job_queue :
           /\ last.req.created = {j}
           /\ last.resp = RespProcessing(last.req.sid, last.req.level, j)
           /\ Cardinality(TasksOf(j)) = 1
           /\ \A i \in TasksOf(j) :
                  pool_queue[i] = [fn |-> "process_topic_planner_job", job |-> j,
                                   topic |-> last.req.topic, level |-> last.req.level]

\* C6 as stated: whenever completion is detected the session is removed and
\* exactly one planning job for its topic and level is created and submitted,
\* and the response carries the job id and the level; no other outcome.
C6_CompletionAlwaysHandsOff ==
    LastDetectedCompletion
        => /\ last.req.sid \notin DOMAIN active_sessions
           /\ LastHandedOff

\* C6 amended: whenever completion is detected the session is gone from the
\* store; when this request removed it and the generation limit check allowed
\* the request, exactly one planning job for the topic and level is created and
\* submitted and the response carries its id and the level; when the limit
\* check refused, or the session had already been removed, no job is created
\* and the response is the limit error (403) or the handler's error (500).
C6_HandoffUnlessRefused ==
    LastDetectedCompletion
        => /\ last.req.sid \notin DOMAIN active_sessions
           /\ last.req.limit = "allowed" => LastHandedOff
           /\ last.req.limit = "refused"
                  => last.req.created = {} /\ last.resp = RespLimit
           /\ last.req.limit = "unchecked"
                  => last.req.created = {} /\ last.resp = Resp500

C6_Witness ==
    /\ LastDetectedCompletion
    /\ last.req.limit = "allowed"
    /\ last.resp.status = "processing"
    /\ last.req.level = Advanced
    /\ Len(pool_queue) > 0

\* C7: whenever completion is detected the resolved level, as held by the
\* handler, passed to the planning job and reported to the caller, is one of
\* Beginner, Intermediate, Advanced.
C7_LevelIsNormalized ==
    /\ \A r \in Clients : req[r].is_complete => req[r].level \in Levels
    /\ last.req.is_complete => last.req.level \in Levels
    /\ last.resp.status = "processing" => last.resp.level \in Levels
    /\ \A i \in 1..Len(pool_queue) :
           pool_queue[i].fn = "process_topic_planner_job" => pool_queue[i].level \in Levels

\* Spellings of a label in any letter case.
AnyCase(w) ==
    CASE w = "intermediate" -> {"intermediate", "Intermediate", "INTERMEDIATE"}
      [] w = "advanced" -> {"advanced", "Advanced", "ADVANCED"}
      [] OTHER -> {w}

\* The text contains DIAGNOSTIC_COMPLETE:w.
ContainsSentinelWith(t, w) ==
    \E i \in 1..(Len(t) - 1) : t[i] = SentinelColon /\ t[i + 1] = Word(w)

\* The text contains submit_diagnostic(mastery_level="w") in some letter case.
ContainsCallWith(t, w) ==
    \E i \in 1..Len(t) : t[i].k = "call" /\ t[i].w \in AnyCase(w)

\* The first DIAGNOSTIC_COMPLETE: of the text is followed, after optional white
\* space, by the label w, optionally wrapped in the characters ",. and then by
\* white space, the next DIAGNOSTIC_COMPLETE: or the end of the text.
FirstSentinelNames(t, w) ==
    /\ HasSecondPart(t)
    /\ LET i == Min(Positions(t, {"sentinel:"})) IN
       \E p \in (i + 1)..Len(t), a \in (i + 1)..Len(t), c \in (i + 1)..Len(t) :
           /\ p <= a /\ a <= c
           /\ \A k \in (i + 1)..(p - 1) : t[k] = Ws
           /\ \A k \in p..(a - 1) : t[k] = StripCh
           /\ t[a] = Word(w)
           /\ \A k \in (a + 1)..c : t[k] = StripCh
           /\ c = Len(t) \/ t[c + 1] \in {Ws, SentinelColon}

\* The first submit_diagnostic call of the text names w in some letter case.
FirstCallNames(t, w) ==
    /\ HasSubmitMatch(t)
    /\ t[Min(Positions(t, {"call"}))].w \in AnyCase(w)

\* What a step of client r leaves: the locals of its request, returned or not.
After(r) == IF req'[r].pc = "idle" THEN last'.req ELSE req'[r]

\* Client r's agent call returns text in this step.
TurnGetsText(r) ==
    /\ req[r].pc = "agent"
    /\ req'[r].pc # "agent"
    /\ After(r).has_text

C9_FailedTurnExpiresSession ==
    (last.client # 0 /\ ~last.req.skip /\ ~last.req.new /\ last.req.failed # "no")
        => /\ last.resp = RespExpired
           /\ last.req.sid \notin DOMAIN active_sessions
           /\ \A r \in Clients : req[r].new => req[r].sid # last.req.sid

----------------------------------------------------------------------------
(* Claims about repeated completion *)

\* C11: a complete_job call on a job that an earlier call already completed or
\* failed, whatever its result and error arguments, leaves the status that
\* get_job_status returns equal to the status the earlier call set.
C11_SecondCompleteKeepsStatus ==
    (api.op = "complete_job" /\ api.before \in Terminal)
        => get_job_status(job_queue, api.job).status = api.before

----------------------------------------------------------------------------
(* The background event loop (app.py:112-139) *)

\* What run_async is asked to run: a coroutine that ends by itself, or one
\* that outlasts the caller's patience.
CallOps == {"get_or_create_event_loop", "run_async"}

\* threading.Thread(target=_start_background_loop, args=(loop,)): a thread
\* object that has not been started.
NewThread(loop) == [loop |-> loop, state |-> "new"]

\* _start_background_loop (app.py:115-118): loop.run_forever() raises
\* RuntimeError when another thread is already running that loop, and the
\* thread ends.
RunForever(threads, t) ==
    IF \E u \in 1..Len(threads) :
           u # t /\ threads[u].state = "running" /\ threads[u].loop = threads[t].loop
    THEN [threads EXCEPT ![t].state = "dead"]
    ELSE [threads EXCEPT ![t].state = "running"]

\* app.py:123-124 (and 133): a thread enters the function and evaluates
\* "_background_loop is None or _background_loop.is_closed()"; nothing in the
\* program closes the loop.
LoopCallBegin(c, op) ==
    /\ caller[c].pc = "idle"
    /\ bg.calls < MaxCalls
    /\ bg' = [bg EXCEPT !.calls = @ + 1]
    /\ caller' = [caller EXCEPT ![c] =
                     [IdleCaller EXCEPT !.op = op, !.seen = bg.loop,
                                        !.pc = IF bg.loop = 0 THEN "new_loop" ELSE "return"]]
    /\ UNCHANGED tasks

\* app.py:125: _background_loop = asyncio.new_event_loop()
LoopNewLoop(c) ==
    /\ caller[c].pc = "new_loop"
    /\ bg' = [bg EXCEPT !.nloops = @ + 1, !.loop = bg.nloops + 1]
    /\ caller' = [caller EXCEPT ![c].pc = "new_thread"]
    /\ UNCHANGED tasks

\* app.py:126: _background_thread = threading.Thread(..., args=(_background_loop,), ...)
\* reads the global as it is now.
LoopNewThread(c) ==
    /\ caller[c].pc = "new_thread"
    /\ bg' = [bg EXCEPT !.threads = Append(@, NewThread(bg.loop)),
                        !.thread = Len(bg.threads) + 1]
    /\ caller' = [caller EXCEPT ![c].pc = "start"]
    /\ UNCHANGED tasks

\* app.py:127: _background_thread.start() on the thread the global names now;
\* starting a thread a second time raises RuntimeError out of the function.
LoopStart(c) ==
    /\ caller[c].pc = "start"
    /\ IF bg.threads[bg.thread].state = "new"
       THEN /\ bg' = [bg EXCEPT !.threads = RunForever(bg.threads, bg.thread)]
            /\ caller' = [caller EXCEPT ![c].pc = "return"]
       ELSE /\ caller' = [caller EXCEPT ![c].pc = "idle", ![c].out = "RuntimeError"]
            /\ UNCHANGED bg
    /\ UNCHANGED tasks

\* app.py:129: return _background_loop; run_async goes on to schedule.
LoopReturn(c) ==
    /\ caller[c].pc = "return"
    /\ caller' = [caller EXCEPT ![c].ret = bg.loop,
                                ![c].out = IF caller[c].op = "run_async" THEN "none" ELSE "loop",
                                ![c].pc = IF caller[c].op = "run_async" THEN "schedule" ELSE "idle"]
    /\ UNCHANGED <<bg, tasks>>

\* app.py:135: future.result(timeout=120)
RunAsyncTimeout == 120

\* app.py:134: asyncio.run_coroutine_threadsafe(coro, loop) queues the
\* coroutine on the loop that get_or_create_event_loop returned.
RunSchedule(c) ==
    /\ caller[c].pc = "schedule"
    /\ tasks' = Append(tasks, [loop |-> caller[c].ret, by |-> c, state |-> "scheduled"])
    /\ caller' = [caller EXCEPT ![c].task = Len(tasks) + 1, ![c].pc = "wait"]
    /\ UNCHANGED bg

\* Time passes for a caller blocked in future.result.
RunWait(c) ==
    /\ caller[c].pc = "wait"
    /\ caller[c].waited < RunAsyncTimeout
    /\ caller' = [caller EXCEPT ![c].waited = @ + TickSeconds]
    /\ UNCHANGED <<bg, tasks>>

\* app.py:135: the task is done and future.result returns its result.
RunResult(c) ==
    /\ caller[c].pc = "wait"
    /\ tasks[caller[c].task].state = "done"
    /\ caller' = [caller EXCEPT ![c].pc = "idle", ![c].out = "result"]
    /\ UNCHANGED <<bg, tasks>>

\* app.py:135: the timeout elapsed before the task was done; future.result
\* raises TimeoutError and leaves the future and its task alone.
Mut_RunTimeout(c) ==
    /\ caller[c].pc = "wait"
    /\ caller[c].waited >= RunAsyncTimeout
    /\ tasks[caller[c].task].state # "done"
    /\ caller' = [caller EXCEPT ![c].pc = "idle", ![c].out = "TimeoutError"]
    /\ tasks' = [tasks EXCEPT ![caller[c].task].state = "cancelled"]
    /\ UNCHANGED bg
RunTimeout(c) ==
    /\ caller[c].pc = "wait"
    /\ caller[c].waited >= RunAsyncTimeout
    /\ tasks[caller[c].task].state # "done"
    /\ caller' = [caller EXCEPT ![c].pc = "idle", ![c].out = "TimeoutError"]
    /\ UNCHANGED <<bg, tasks>>

\* The loop thread (loop.run_forever, app.py:118) takes a scheduled coroutine
\* and later runs it to its end; a loop that no thread runs takes nothing.
LoopTaskStart(i) ==
    /\ tasks[i].state = "scheduled"
    /\ \E t \in 1..Len(bg.threads) :
           bg.threads[t].state = "running" /\ bg.threads[t].loop = tasks[i].loop
    /\ tasks' = [tasks EXCEPT ![i].state = "running"]
    /\ UNCHANGED <<bg, caller>>

LoopTaskFinish(i) ==
    /\ tasks[i].state = "running"
    /\ tasks' = [tasks EXCEPT ![i].state = "done"]
    /\ UNCHANGED <<bg, caller>>

nonLoopVars ==
    <<jobVars, active_sessions, next_sid, req, last, requests, daily_generations_used,
      probe_text, card, runs, srsVars, parseVars>>

LoopStep(c) ==
    \/ \E op \in CallOps : LoopCallBegin(c, op)
    \/ LoopNewLoop(c)
    \/ LoopNewThread(c)
    \/ LoopStart(c)
    \/ LoopReturn(c)
    \/ RunSchedule(c)
    \/ RunWait(c)
    \/ RunResult(c)
    \/ RunTimeout(c)

LoopNext ==
    /\ \/ \E c \in Callers : LoopStep(c)
       \/ \E i \in 1..Len(tasks) : LoopTaskStart(i)
       \/ \E i \in 1..Len(tasks) : LoopTaskFinish(i)
    /\ UNCHANGED nonLoopVars

LoopSpec == Init /\ [][LoopNext]_vars

\* No thread is inside get_or_create_event_loop.
LoopQuiescent ==
    \A c \in Callers : caller[c].pc \notin {"new_loop", "new_thread", "start", "return"}

\* C12: however the calls of get_or_create_event_loop interleave, once no
\* thread is inside the function and at least one call was made, exactly one
\* loop and exactly one loop thread exist; and a call that found the loop
\* present created nothing and returned that loop.
C12_ExactlyOneLoop ==
    /\ (LoopQuiescent /\ bg.calls > 0)
           => /\ bg.nloops = 1
              /\ Len(bg.threads) = 1
              /\ bg.threads[1].state = "running"
    /\ \A c \in Callers :
           (caller[c].seen # 0 /\ caller[c].ret # 0) => caller[c].ret = caller[c].seen

\* C13: a caller of run_async leaves future.result only when its task is done
\* (it gets the result) or when the 120 seconds have elapsed with the task not
\* done (it gets TimeoutError); the timeout leaves the task as it was, and no
\* step ever cancels or unschedules a task, so the task can still run to its
\* end after the caller has returned.
C13_TimeoutKeepsTask ==
    [][/\ \A c \in Callers :
              (caller[c].pc = "wait" /\ caller'[c].pc # "wait")
                  => LET t == tasks[caller[c].task] IN
                     \/ /\ caller'[c].out = "result"
                        /\ t.state = "done"
                     \/ /\ caller'[c].out = "TimeoutError"
                        /\ caller[c].waited >= RunAsyncTimeout
                        /\ t.state # "done"
                        /\ tasks' = tasks
       /\ \A i \in 1..Len(tasks) :
              /\ i <= Len(tasks')
              /\ tasks'[i].loop = tasks[i].loop
              /\ tasks'[i].state # "cancelled"
              /\ tasks[i].state = "done" => tasks'[i].state = "done"]_vars

\* A caller has been told TimeoutError and its task has since run to its end.
C13_Witness ==
    \E c \in Callers :
        /\ caller[c].pc = "idle"
        /\ caller[c].out = "TimeoutError"
        /\ tasks[caller[c].task].state = "done"

----------------------------------------------------------------------------
(* Claims about where agent calls run *)

\* C14: every agent invocation, those of the job worker bodies included, runs
\* on the single persistent loop through run_async; none runs on another
\* event loop.
C14_AgentOnlyOnBackgroundLoop ==
    /\ \A w \in Workers : worker[w].agent_loop \in {NoLoop, BackgroundLoop}
    /\ \A r \in Clients : req[r].agent_loop \in {NoLoop, BackgroundLoop}
    /\ last.req.agent_loop \in {NoLoop, BackgroundLoop}

----------------------------------------------------------------------------
(* More jobs than pool threads *)

\* ThreadPoolExecutor(max_workers=8) (app.py:92), scaled: the pool has one
\* thread fewer than there are jobs to submit.
PoolWorkers == 1..(MaxJobs - 1)

PoolNext ==
    \/ \E fn \in JobFns : SubmitJob(fn)
    \/ \E w \in PoolWorkers : WorkerStep(w)

PoolSpec == Init /\ [][PoolNext]_vars

\* The pool threads that are inside a job body.
Busy == {w \in Workers : worker[w].pc # "idle"}

----------------------------------------------------------------------------
(* Claims about session creation and the skip shortcut *)

\* C16: a session enters the store only in the creation step of a request
\* that is not a skip request and that supplied a topic; it is stored under
\* an id that was not handed out before, never under the id the request
\* supplied, and it carries the request's topic. A request without a topic
\* creates no session.
C16_SessionCreatedOnlyWithTopic ==
    [][\A sid \in DOMAIN active_sessions' \ DOMAIN active_sessions :
          \E r \in Clients :
              /\ req[r].pc = "create_session"
              /\ ~req[r].skip
              /\ req[r].topic # ""
              /\ sid = req[r].sid
              /\ sid \in 1..next_sid
              /\ sid # UnknownSid
              /\ active_sessions'[sid].topic = req[r].topic]_vars

\* Client r's skip request returns in this step.
SkipReturns(r) == req[r].pc # "idle" /\ req[r].skip /\ req'[r].pc = "idle"

\* The step creates and submits exactly one planning job, for topic and level
\* Beginner, and answers processing with the job id and level Beginner.
SubmitsOneBeginnerJob(r, topic) ==
    LET job == next_job' IN
    /\ next_job' = next_job + 1
    /\ DOMAIN job_queue' = DOMAIN job_queue \cup {job}
    /\ job \notin DOMAIN job_queue
    /\ job_queue'[job].status = "pending"
    /\ pool_queue' = Append(pool_queue,
                            [fn |-> "process_topic_planner_job", job |-> job,
                             topic |-> topic, level |-> Beginner])
    /\ last'.client = r
    /\ last'.resp.http = 200
    /\ last'.resp.status = "processing"
    /\ last'.resp.job_id = job
    /\ last'.resp.level = Beginner

\* The step creates no job and submits nothing.
SubmitsNothing == UNCHANGED <<job_queue, next_job, pool_queue>>

\* The topic a returning skip request ends with: the stored topic of its
\* session when the session is in the store, otherwise the request's topic.
SkipTopic(r) ==
    IF req[r].sid \in DOMAIN active_sessions
    THEN active_sessions[req[r].sid].topic ELSE req[r].topic

----------------------------------------------------------------------------
(* The flashcard scheduler of db.py (update_flashcard_schedule) *)

Qualities == 0..5

\* Python's round() of the quotient n / d: to the nearest integer, a tie to
\* the even one.
Mut_Round(n, d) == (n \div d) + 1
Round(n, d) ==
    LET q == n \div d
        r == n % d
    IN  IF 2 * r < d THEN q
        ELSE IF 2 * r > d THEN q + 1
        ELSE IF q % 2 = 0 THEN q ELSE q + 1

\* db.py:699: 0.1 - (5 - quality) * (0.08 + (5 - quality) * 0.02), in hundredths.
Mut_EaseDelta(quality) == 10 - (5 - quality) * 8
EaseDelta(quality) == 10 - (5 - quality) * (8 + (5 - quality) * 2)

\* db.py:700: max(1.3, ease)
MinEase == 130
Mut_FloorEase(ease) == ease
FloorEase(ease) == IF ease > MinEase THEN ease ELSE MinEase

\* db.py:683-704: the new schedule fields for a review of the given quality.
Mut_update_flashcard_schedule(c, quality) ==
    IF quality >= 3
    THEN [interval |-> CASE c.step = 0 -> 1
                         [] c.step = 1 -> 6
                         [] OTHER -> Round(c.interval * c.ease_factor, 100),
          step |-> CASE c.step = 0 -> 1
                     [] c.step = 1 -> 2
                     [] OTHER -> c.step + 1,
          ease_factor |-> FloorEase(c.ease_factor + EaseDelta(quality)),
          quality |-> quality]
    ELSE [interval |-> 1, step |-> 0, ease_factor |-> FloorEase(c.ease_factor - 20),
          quality |-> quality]
update_flashcard_schedule(c, quality) ==
    IF quality >= 3
    THEN [interval |-> CASE c.step = 0 -> 1
                         [] c.step = 1 -> 6
                         [] OTHER -> Round(c.interval * c.ease_factor, 100),
          step |-> CASE c.step = 0 -> 1
                     [] c.step = 1 -> 2
                     [] OTHER -> c.step + 1,
          ease_factor |-> FloorEase(c.ease_factor + EaseDelta(quality)),
          quality |-> quality]
    ELSE [interval |-> 1, step |-> 0, ease_factor |-> c.ease_factor,
          quality |-> quality]

\* The schedule states the model follows.
InCardBounds(c) ==
    /\ c.step <= MaxStep
    /\ c.interval <= MaxInterval
    /\ c.ease_factor <= MaxEase

\* One review of the card (db.py:665-729): the document is read, the schedule
\* computed and written back.
Review(quality) ==
    /\ InCardBounds(update_flashcard_schedule(card, quality))
    /\ card' = update_flashcard_schedule(card, quality)
    /\ UNCHANGED <<jobVars, active_sessions, next_sid, req, last, requests,
                   daily_generations_used, probe_text, loopVars, runs, srsVars, parseVars>>

CardNext == \E quality \in Qualities : Review(quality)

\* A card from its creation on.
CardSpec == Init /\ [][CardNext]_vars

\* Any schedule state: step and interval are natural numbers, ease_factor is
\* a whole number of fiftieths not below 1.3.
CardStates ==
    [interval : 0..MaxInterval, step : 0..MaxStep,
     ease_factor : {e \in MinEase..MaxEase : e % 2 = 0}, quality : {-1}]

ReviewInit ==
    /\ JobsInit
    /\ active_sessions = << >>
    /\ next_sid = 0
    /\ req = [r \in Clients |-> IdleReq]
    /\ last = NoLast
    /\ requests = 0
    /\ daily_generations_used = 0
    /\ probe_text = << >>
    /\ LoopInit
    /\ card \in CardStates
    /\ SrsInit
    /\ ParseIdle

ReviewSpec == ReviewInit /\ [][CardNext]_vars

\* C18: whatever the schedule state, a review of quality 0, 1 or 2 sets step
\* to 0 and interval to 1 and leaves ease_factor exactly as it was.
C18_FailedReviewResets ==
    [][card'.quality \in {0, 1, 2}
          => /\ card'.step = 0
             /\ card'.interval = 1
             /\ card'.ease_factor = card.ease_factor]_vars

\* A failed review has reset a card whose ease factor earlier reviews lowered.
C18_Witness ==
    /\ card.quality = 2
    /\ card.step = 0
    /\ card.interval = 1
    /\ card.ease_factor = 236

\* C19: whatever the schedule state, a review of quality 3, 4 or 5 increases
\* step by exactly 1, sets interval to 1 on the first successful repetition
\* since the last reset, to 6 on the second, otherwise to the rounded product
\* of the previous interval and the ease factor held before the review, and
\* then changes ease_factor by +0.10, 0.00 or -0.14 for quality 5, 4, 3, not
\* below 1.3.
C19_SuccessfulReviewAdvances ==
    [][card'.quality \in {3, 4, 5}
          => LET d == CASE card'.quality = 5 -> 10
                        [] card'.quality = 4 -> 0
                        [] OTHER -> -14
                 e == card.ease_factor + d
             IN  /\ card'.step = card.step + 1
                 /\ card'.interval = IF card.step = 0 THEN 1
                                     ELSE IF card.step = 1 THEN 6
                                     ELSE Round(card.interval * card.ease_factor, 100)
                 /\ card'.ease_factor = IF e < 130 THEN 130 ELSE e]_vars

\* The third successful repetition in a row, of quality 3, on a card with
\* interval 6 and ease factor 2.5: interval 15, ease factor 2.36.
C19_Witness ==
    /\ card.quality = 3
    /\ card.step = 3
    /\ card.interval = 15
    /\ card.ease_factor = 236

\* C20: from a newly created card on, after any sequence of reviews with
\* qualities 0..5, ease_factor is at least 1.3.
C20_EaseAtLeastMinimum == card.ease_factor >= 130

\* The ease factor has been driven down to the floor and the card has then
\* been failed.
C20_Witness ==
    /\ card.ease_factor = 130
    /\ card.quality = 0
    /\ card.step = 0

----------------------------------------------------------------------------
(* run_async in the running application *)

\* app.py:139: the module calls get_or_create_event_loop() when it is loaded,
\* before any request is served: one loop, run by one thread.
LoadedLoops ==
    [loop |-> 1, thread |-> 1, nloops |-> 1,
     threads |-> <<[loop |-> 1, state |-> "running"]>>, calls |-> 0]

RunAsyncInit ==
    /\ JobsInit
    /\ active_sessions = << >>
    /\ next_sid = 0
    /\ req = [r \in Clients |-> IdleReq]
    /\ last = NoLast
    /\ requests = 0
    /\ daily_generations_used = 0
    /\ probe_text = << >>
    /\ CardInit
    /\ bg = LoadedLoops
    /\ caller = [c \in Callers |-> IdleCaller]
    /\ tasks = << >>

RunAsyncStep(c) ==
    \/ LoopCallBegin(c, "run_async")
    \/ LoopReturn(c)
    \/ RunSchedule(c)
    \/ RunWait(c)
    \/ RunResult(c)
    \/ RunTimeout(c)

RunAsyncNext ==
    /\ \/ \E c \in Callers : RunAsyncStep(c)
       \/ \E i \in 1..Len(tasks) : LoopTaskStart(i)
       \/ \E i \in 1..Len(tasks) : LoopTaskFinish(i)
    /\ UNCHANGED nonLoopVars

RunAsyncSpec == RunAsyncInit /\ [][RunAsyncNext]_vars

----------------------------------------------------------------------------
(* The scheduler of the flashcard tool and the two schedulers side by side *)

\* Python's int() of the non-negative quotient n / d: the fraction is dropped.
Truncate(n, d) == n \div d

\* update_card_schedule (tools/flashcard_tools.py:113-135): the card's
\* schedule fields after a review of the given quality.
update_card_schedule(c, quality) ==
    IF quality < 3
    THEN [c EXCEPT !.repetitions = 0, !.interval_days = 1]
    ELSE LET repetitions == c.repetitions + 1 IN
         [repetitions |-> repetitions,
          interval_days |-> CASE repetitions = 1 -> 1
                              [] repetitions = 2 -> 6
                              [] OTHER -> Truncate(c.interval_days * c.ease_factor, 100),
          ease_factor |-> FloorEase(c.ease_factor + EaseDelta(quality))]

\* The same review is given to a card of the database and, with the tool, to
\* a card of the in-memory store; both start as newly created cards.
ReviewLogged(quality) ==
    /\ Len(reviews) < MaxReviews
    /\ InCardBounds(update_flashcard_schedule(card, quality))
    /\ card' = update_flashcard_schedule(card, quality)
    /\ tool_card' = update_card_schedule(tool_card, quality)
    /\ reviews' = Append(reviews, quality)
    /\ UNCHANGED <<jobVars, active_sessions, next_sid, req, last, requests,
                   daily_generations_used, probe_text, loopVars, runs,
                   reviewer, review_count, parseVars>>

HistoryNext == \E quality \in Qualities : ReviewLogged(quality)

HistorySpec == Init /\ [][HistoryNext]_vars

\* s is an initial part of t.
IsPrefix(s, t) == Len(s) <= Len(t) /\ SubSeq(t, 1, Len(s)) = s

\* C21: from a new card (step 0, interval 0, ease 2.5) three consecutive
\* quality-5 reviews give the intervals 1, 6 and 16, the last one being the
\* rounded product of 6 and the ease factor after the second review, and the
\* ease factor never decreases on the way; and a quality-0 review after any
\* history gives interval 1 and step 0 and leaves the ease factor unchanged.
C21_ThreePerfectReviews ==
    [][reviews' # reviews
          => /\ IsPrefix(reviews', <<5, 5, 5>>)
                    => /\ card'.interval = <<1, 6, 16>>[Len(reviews')]
                       /\ card'.ease_factor >= card.ease_factor
                       /\ Len(reviews') = 3
                              => card'.interval = Round(6 * card.ease_factor, 100)
             /\ reviews'[Len(reviews')] = 0
                    => /\ card'.interval = 1
                       /\ card'.step = 0
                       /\ card'.ease_factor = card.ease_factor]_vars

\* The card has had exactly three quality-5 reviews.
C21_Witness ==
    /\ reviews = <<5, 5, 5>>
    /\ card.interval = 16
    /\ card.step = 3
    /\ card.ease_factor = 280

\* C28: after every non-empty sequence of qualities applied to newly created
\* cards, the scheduler of db.py and the scheduler of the flashcard tool hold
\* the same repetition counter, interval and ease factor.
C28_SchedulersAgree ==
    reviews # << >>
        => /\ card.step = tool_card.repetitions
           /\ card.interval = tool_card.interval_days
           /\ card.ease_factor = tool_card.ease_factor

----------------------------------------------------------------------------
(* Concurrent reviews of one card: review_flashcard runs in one thread (or
   greenlet, or worker process) per request, and update_flashcard_schedule
   reads the card with find_one and writes it back later with update_one *)

\* db.py:677-685: find_one, and the locals step, interval and ease taken
\* from the document that was read.
ReviewRead(t, quality) ==
    /\ reviewer[t].pc = "idle"
    /\ Len(reviews) < MaxReviews
    /\ reviewer' = [reviewer EXCEPT ![t] =
                       [pc |-> "read", quality |-> quality, step |-> card.step,
                        interval |-> card.interval, ease |-> card.ease_factor]]
    /\ reviews' = Append(reviews, quality)
    /\ UNCHANGED <<jobVars, active_sessions, next_sid, req, last, requests,
                   daily_generations_used, probe_text, loopVars, runs,
                   card, tool_card, review_count, parseVars>>

\* The document the thread read at db.py:677, as far as the schedule goes.
ReadCard(t) ==
    [step |-> reviewer[t].step, interval |-> reviewer[t].interval,
     ease_factor |-> reviewer[t].ease, quality |-> card.quality]

\* db.py:687-721: the schedule is computed from the locals and written with
\* one update_one, whose $set replaces step, interval and ease_factor and
\* whose $inc adds one to review_count.
ReviewWrite(t) ==
    /\ reviewer[t].pc = "read"
    /\ InCardBounds(update_flashcard_schedule(ReadCard(t), reviewer[t].quality))
    /\ card' = update_flashcard_schedule(ReadCard(t), reviewer[t].quality)
    /\ review_count' = review_count + 1
    /\ reviewer' = [reviewer EXCEPT ![t] = IdleReviewer]
    /\ UNCHANGED <<jobVars, active_sessions, next_sid, req, last, requests,
                   daily_generations_used, probe_text, loopVars, runs,
                   tool_card, reviews, parseVars>>

RaceNext ==
    \E t \in Reviewers :
        \/ \E quality \in Qualities : ReviewRead(t, quality)
        \/ ReviewWrite(t)

RaceSpec == Init /\ [][RaceNext]_vars

\* The schedule fields of a card.
Schedule(c) == <<c.step, c.interval, c.ease_factor>>

\* The schedule after the qualities a and b were applied to c one after the
\* other.
Sequentially(c, a, b) ==
    Schedule(update_flashcard_schedule(update_flashcard_schedule(c, a), b))

\* C29: when two update_flashcard_schedule calls on the same card have both
\* returned, the card's step, interval and ease factor are those of applying
\* the two reviews one after the other in some order, and review_count has
\* grown by exactly 2.
C29_ConcurrentReviewsSerialize ==
    (Len(reviews) = 2 /\ \A t \in Reviewers : reviewer[t].pc = "idle")
        => /\ review_count = 2
           /\ \/ Schedule(card) = Sequentially(NewCard, reviews[1], reviews[2])
              \/ Schedule(card) = Sequentially(NewCard, reviews[2], reviews[1])

----------------------------------------------------------------------------
(* The daily limit under concurrent requests *)

\* C30: the daily_generations_used counter of a free-tier user never exceeds
\* FREE_TIER_DAILY_LIMIT, whatever the interleaving of concurrent requests
\* that each call check_generation_limit and then use_generation.
C30_CounterWithinLimit == daily_generations_used <= FREE_TIER_DAILY_LIMIT

----------------------------------------------------------------------------
(* The topic of a diagnostic session *)

\* Request r has just started a continuation turn of a stored session.
ContinuationStarts(r) ==
    /\ req[r].pc = "idle"
    /\ req'[r].pc = "agent"

\* C22: the topic stored with a session never changes while the session is
\* in the store, and every continuation turn sends the agent the user's text
\* wrapped with the topic stored with its session, also when the request
\* itself carries a different topic or none.
C22_ContinuationUsesStoredTopic ==
    [][/\ \A sid \in DOMAIN active_sessions \cap DOMAIN active_sessions' :
              active_sessions'[sid].topic = active_sessions[sid].topic
       /\ \A r \in Clients :
              ContinuationStarts(r)
                  => /\ req'[r].sid \in DOMAIN active_sessions
                     /\ req'[r].input =
                            contextual_input(active_sessions[req'[r].sid].topic)]_vars

\* A continuation turn whose request carried no topic has sent the stored
\* topic to the agent.
C22_Witness ==
    \E r \in Clients :
        /\ req[r].pc = "agent"
        /\ ~req[r].new
        /\ req[r].data_topic = ""
        /\ req[r].sid \in DOMAIN active_sessions
        /\ active_sessions[req[r].sid].topic = "python"
        /\ req[r].input = contextual_input("python")

----------------------------------------------------------------------------
(* clean_and_parse_json on the text itself (app.py:155-179) *)

\* An LLM output is a sequence of pieces: a code fence, one of two JSON
\* objects, prose without braces or fences, white space.
Fence == "<fence>"
ObjectA == "{\"a\": 1}"
ObjectB == "{\"b\": 2}"
Prose == "Here it is"
Space == " "
JsonObjects == {ObjectA, ObjectB}
Pieces == {Fence, ObjectA, ObjectB, Prose, Space}

MaxPieces == 4

LlmTexts == UNION {[1..n -> Pieces] : n \in 0..MaxPieces}

\* json.JSONDecodeError
DecodeError == "JSONDecodeError"

RECURSIVE lstrip(_)
lstrip(s) == IF s # << >> /\ s[1] = Space THEN lstrip(Tail(s)) ELSE s

RECURSIVE rstrip(_)
rstrip(s) ==
    IF s # << >> /\ s[Len(s)] = Space THEN rstrip(SubSeq(s, 1, Len(s) - 1)) ELSE s

\* json.loads: the document is one JSON value, white space around it is
\* allowed; anything else raises JSONDecodeError.
json_loads(s) ==
    LET t == rstrip(lstrip(s)) IN
    IF Len(t) = 1 /\ t[1] \in JsonObjects THEN t[1] ELSE DecodeError

\* re.search(r'```(?:json)?\s*([\s\S]*?)\s*```', text) at app.py:168: the
\* first fence and the nearest fence after it; group(1) is what lies between
\* them without the white space at its ends. << >> stands for no match,
\* <<g>> for a match with group(1) = g.
code_block_match(s) ==
    LET fences == {i \in 1..Len(s) : s[i] = Fence} IN
    IF Cardinality(fences) < 2 THEN << >>
    ELSE LET open == Min(fences)
             close == Min(fences \ {open})
         IN  <<rstrip(lstrip(SubSeq(s, open + 1, close - 1)))>>

\* re.search(r'\{[\s\S]*\}', text) at app.py:173: from the first opening
\* brace to the last closing brace.
json_match(s) ==
    LET braces == {i \in 1..Len(s) : s[i] \in JsonObjects} IN
    IF braces = {} THEN << >>
    ELSE <<SubSeq(s, Min(braces), Max(braces))>>

\* The second try block (app.py:166-177): one except clause covers both the
\* fenced block and the brace substring.
extract_json(text) ==
    LET block == code_block_match(text)
        object == json_match(text)
        found == IF block # << >> THEN json_loads(block[1])
                 ELSE IF object # << >> THEN json_loads(object[1])
                 ELSE NONE
    IN  IF found = DecodeError THEN NONE ELSE found

\* clean_and_parse_json (app.py:155-179) on a text of pieces.
parse_llm_output(text) ==
    IF text = << >> THEN NONE
    ELSE IF json_loads(rstrip(lstrip(text))) # DecodeError
    THEN json_loads(rstrip(lstrip(text)))
    ELSE extract_json(text)

ParseOutput ==
    /\ parsed = "unparsed"
    /\ parsed' = parse_llm_output(llm_text)
    /\ UNCHANGED <<jobVars, active_sessions, next_sid, req, last, requests,
                   daily_generations_used, probe_text, loopVars, card, runs,
                   srsVars, llm_text>>

ParseInit ==
    /\ JobsInit
    /\ active_sessions = << >>
    /\ next_sid = 0
    /\ req = [r \in Clients |-> IdleReq]
    /\ last = NoLast
    /\ requests = 0
    /\ daily_generations_used = 0
    /\ probe_text = << >>
    /\ LoopInit
    /\ card = NewCard
    /\ SrsInit
    /\ llm_text \in LlmTexts
    /\ parsed = "unparsed"

ParseNext == ParseOutput

ParseSpec == ParseInit /\ [][ParseNext]_vars

\* The three strategies, each on its own: the whole text, the content of the
\* first fenced block, the substring from the first opening brace to the
\* last closing brace.
WholeText(s) == json_loads(s)
FencedBlock(s) ==
    IF code_block_match(s) = << >> THEN DecodeError
    ELSE json_loads(code_block_match(s)[1])
BraceSubstring(s) ==
    IF json_match(s) = << >> THEN DecodeError ELSE json_loads(json_match(s)[1])

\* The first strategy that parses, NONE when none does.
FirstSuccess(s) ==
    CASE WholeText(s) # DecodeError -> WholeText(s)
      [] FencedBlock(s) # DecodeError -> FencedBlock(s)
      [] BraceSubstring(s) # DecodeError -> BraceSubstring(s)
      [] OTHER -> NONE

\* C23: clean_and_parse_json returns the first successful parse among the
\* whole text, the content of the first fenced code block and the substring
\* from the first opening brace to the last closing brace, in this order, and
\* returns nothing only when all three fail: a fenced block that does not
\* parse falls through to the brace substring.
C23_FirstSuccessfulStrategy ==
    parsed # "unparsed" => parsed = FirstSuccess(llm_text)

----------------------------------------------------------------------------
(* Order of the two detection rules *)

\* C24: when one agent output text matches both detection rules and the two
\* rules give different levels, the resolved level is the one of the first
\* rule, the DIAGNOSTIC_COMPLETE sentinel: the first match wins.
C24_FirstRuleWins ==
    [][\A r \in Clients :
          TurnGetsText(r) =>
              LET t == After(r).text IN
              (HasSentinel(t) /\ HasSubmitMatch(t) /\ SentinelLevel(t) # SubmitLevel(t))
                  => After(r).level = SentinelLevel(t)]_vars

----------------------------------------------------------------------------
(* What a diagnostic response shows of the agent's text *)

\* The text m holds the text t as a contiguous part.
HoldsText(m, t) ==
    \E i \in 1..(Len(m) - Len(t) + 1) : SubSeq(m, i, i + Len(t) - 1) = t

\* The message of a completion response for a level.
CompletionMessage(level) ==
    <<Tok("fixed", "Diagnostic complete! Level: ")>> \o level
        \o <<Tok("fixed", ". Generating personalized journey...")>>

\* C25: no response with status chatting carries a message that contains
\* the DIAGNOSTIC_COMPLETE token, and the response of a completion turn
\* carries the job id, the resolved level and the fixed message built from
\* that level, and never the agent's raw text of that turn.
C25_NoSignalLeak ==
    /\ last.resp.status = "chatting" => ~HasSentinel(last.resp.message)
    /\ (last.resp.status = "processing" /\ ~last.req.skip)
           => /\ last.req.is_complete
              /\ last.resp.job_id \in last.req.created
              /\ last.resp.level = last.req.level
              /\ last.resp.message = CompletionMessage(last.req.level)
              /\ last.resp.error = NoResp.error
              /\ ~HoldsText(last.resp.message, last.req.text)

\* A completion turn whose text had words before the sentinel was answered
\* with the processing response.
C25_Witness ==
    /\ last.client # 0
    /\ ~last.req.skip
    /\ Len(last.req.text) = 3
    /\ last.req.text[1].k = "word"
    /\ last.req.text[2] = SentinelColon
    /\ last.req.text[3] = Word("Advanced")
    /\ last.resp.status = "processing"
    /\ last.resp.message = CompletionMessage(Advanced)

----------------------------------------------------------------------------
(* Planning jobs per diagnostic session *)

\* Request r creates its planning job in this step.
CreatesJob(r) ==
    /\ req[r].pc # "idle"
    /\ req[r].created = {}
    /\ After(r).created # {}

\* C26: at most one planning job is ever created on behalf of a diagnostic
\* session, also when a completing chat request and a skip request (or two
\* chat requests) for the same session id run concurrently: a request that
\* did not delete the session itself creates no job.  Stated on consecutive
\* responses: a request that creates a job for a session id does not follow
\* a response whose request deleted the session of that id (as a completed
\* chat turn, or as a skip that found it in the store) and created its job.
C26_OneJobPerSession ==
    [][\A r \in Clients :
          (CreatesJob(r) /\ After(r).sid \in 1..next_sid)
              => ~(/\ last.client # 0
                   /\ last.req.created # {}
                   /\ last.req.sid = After(r).sid
                   /\ last.req.is_complete \/ last.req.known)]_vars

----------------------------------------------------------------------------
(* Sessions of requests that failed *)

\* C27: no session created by a chat request that was answered with an error
\* stays in the store: when the new session has been inserted and its opening
\* agent invocation fails, the session is removed again.
C27_FailedNewSessionRemoved ==
    (last.client # 0 /\ last.req.new /\ last.resp.http >= 400)
        => last.req.sid \notin DOMAIN active_sessions

====
